---- MODULE Spec2Model ----
(***************************************************************************)
(* FinForge detection engine (backend/detector.py, MoneyMulingDetector).   *)
(*                                                                         *)
(* A transaction table df is drawn from a bounded family of tables, then   *)
(* run(df) is executed stage by stage: build_graph, detect_smurfing,       *)
(* detect_cycles, detect_shell_chains, detect_mastermind, scoring, ring    *)
(* assembly and the post-filter.                                           *)
(*                                                                         *)
(* Account identifiers are strings in the program.  Here an account is a   *)
(* natural number; Prefix(a) is the part of its name the program looks at  *)
(* (startswith), and the order of the numbers is the lexicographic order   *)
(* of the names ("ACC_1" < "CYC3_1" < "LEGIT_1" < "USER_001").             *)
(* Timestamps are whole hours; amounts are whole currency units.           *)
(***************************************************************************)
EXTENDS Integers, Sequences, FiniteSets, TLC

\* ------------------------------------------------------------------------
\* Program constants (class attributes of MoneyMulingDetector)
\* ------------------------------------------------------------------------
MIN_CYCLE_LENGTH == 3
MAX_CYCLE_LENGTH == 5
MIN_FAN_COUNT == 10
MERCHANT_THRESHOLD == 100
SHELL_MAX_TX_COUNT == 4
MIN_CYCLE_AMOUNT == 5000
FAN_OUT_THRESHOLD == 10
VELOCITY_WINDOW_HOURS == 72
VELOCITY_TX_THRESHOLD == 10
MAX_SCC_SIZE == 40
MAX_CYCLE_SEARCH_NODES == 200

_FRAUD_PREFIXES ==
    {"NODE_", "NX_", "CYC3_", "CYC4_", "CYC5_", "SMURF_", "SF_", "SHELL_",
     "VEL_", "R5_", "SH_INT", "SH_SRC", "SH_DST", "SRC_"}

\* ------------------------------------------------------------------------
\* Accounts of the bounded inputs
\* ------------------------------------------------------------------------
\* Named accounts: 1..3 "ACC_n", 4..6 "CYC3_n", 7..9 "LEGIT_n"; the accounts
\* from 10 on are the counterparties "USER_nnn" of the crowds.
Prefix(a) ==
    IF a <= 3 THEN "ACC_"
    ELSE IF a <= 6 THEN "CYC3_"
    ELSE IF a <= 9 THEN "LEGIT_"
    ELSE "USER_"

User(i) == 9 + i

_is_fraud(node) == Prefix(node) \in _FRAUD_PREFIXES

_all_legit(nodes) == \A n \in nodes : Prefix(n) = "LEGIT_"

\* ------------------------------------------------------------------------
\* Helpers
\* ------------------------------------------------------------------------
Min(S) == CHOOSE x \in S : \A y \in S : x <= y
Max(S) == CHOOSE x \in S : \A y \in S : x >= y

Range(s) == {s[i] : i \in DOMAIN s}

\* sorted(S) for a set of accounts
RECURSIVE sorted(_)
sorted(S) == IF S = {} THEN <<>> ELSE <<Min(S)>> \o sorted(S \ {Min(S)})

Row(s, r, amt, t) == [sender |-> s, receiver |-> r, amount |-> amt, timestamp |-> t]

\* sum of the amount column over the rows I of table d
RECURSIVE SumAmount(_, _)
SumAmount(d, I) ==
    IF I = {} THEN 0
    ELSE LET i == CHOOSE x \in I : TRUE IN d[i].amount + SumAmount(d, I \ {i})

\* ------------------------------------------------------------------------
\* Graph (build_graph): one edge per ordered pair, amount summed
\* ------------------------------------------------------------------------
build_graph(d) ==
    LET c == SelectSeq(d, LAMBDA r : r.sender # r.receiver)
        E == {<<c[i].sender, c[i].receiver>> : i \in DOMAIN c}
    IN  [e \in E |->
            SumAmount(c, {i \in DOMAIN c : <<c[i].sender, c[i].receiver>> = e})]

Nodes(g) == {e[1] : e \in DOMAIN g} \cup {e[2] : e \in DOMAIN g}
successors(g, n) == {e[2] : e \in {x \in DOMAIN g : x[1] = n}}
predecessors(g, n) == {e[1] : e \in {x \in DOMAIN g : x[2] = n}}
in_degree(g, n) == Cardinality(predecessors(g, n))
out_degree(g, n) == Cardinality(successors(g, n))

\* ------------------------------------------------------------------------
\* Smurfing detection (detect_smurfing)
\* ------------------------------------------------------------------------
Accounts(d) == {d[i].sender : i \in DOMAIN d} \cup {d[i].receiver : i \in DOMAIN d}

senders_of(d, a) == {d[i].sender : i \in {j \in DOMAIN d : d[j].receiver = a}}
receivers_of(d, a) == {d[i].receiver : i \in {j \in DOMAIN d : d[j].sender = a}}

\* compute_whitelist that counts the senders only
compute_whitelist_senders_only(d) ==
    {a \in Accounts(d) : Cardinality(senders_of(d, a)) >= MERCHANT_THRESHOLD}

\* cp = edges.groupby("a")["p"].nunique(); whitelist = cp >= MERCHANT_THRESHOLD
compute_whitelist(d) ==
    {a \in Accounts(d) :
        Cardinality(senders_of(d, a) \cup receivers_of(d, a)) >= MERCHANT_THRESHOLD}

\* grp.sort_values("timestamp"): the rows I of d by timestamp, rows of equal
\* timestamp in table order
RECURSIVE sort_by_timestamp(_, _)
sort_by_timestamp(d, I) ==
    IF I = {} THEN <<>>
    ELSE LET i == CHOOSE x \in I : \A y \in I :
                      \/ d[x].timestamp < d[y].timestamp
                      \/ d[x].timestamp = d[y].timestamp /\ x <= y
         IN  <<i>> \o sort_by_timestamp(d, I \ {i})

\* advance_left that never moves left
advance_left_never(ts, left, right) == left

\* while (ts[right] - ts[left]) > wt: left += 1
RECURSIVE advance_left(_, _, _)
advance_left(ts, left, right) ==
    IF ts[right] - ts[left] > VELOCITY_WINDOW_HOURS
    THEN advance_left(ts, left + 1, right)
    ELSE left

\* the two-pointer loop of detect_smurfing from position right on; TRUE iff ok
RECURSIVE velocity_scan(_, _, _, _)
velocity_scan(ts, sns, left, right) ==
    IF right > Len(ts) THEN FALSE
    ELSE LET l  == advance_left(ts, left, right)
             ws == SubSeq(sns, l, right)
         IN  IF /\ Len(ws) >= VELOCITY_TX_THRESHOLD
                /\ Cardinality(Range(ws)) >= VELOCITY_TX_THRESHOLD
             THEN TRUE
             ELSE velocity_scan(ts, sns, l, right + 1)

high_velocity(d, wl, acct) ==
    LET I   == {i \in DOMAIN d : d[i].receiver = acct}
        grp == sort_by_timestamp(d, I)
        ts  == [k \in DOMAIN grp |-> d[grp[k]].timestamp]
        sns == [k \in DOMAIN grp |-> d[grp[k]].sender]
    IN  /\ acct \notin wl
        /\ Len(grp) >= VELOCITY_TX_THRESHOLD
        /\ velocity_scan(ts, sns, 1, 1)

\* result: account -> list of patterns, in the order the code appends them
detect_smurfing(d, wl) ==
    LET fan_in(a)  == a \notin wl /\ Cardinality(senders_of(d, a)) >= MIN_FAN_COUNT
        fan_out(a) == a \notin wl /\ Cardinality(receivers_of(d, a)) >= FAN_OUT_THRESHOLD
        keys == {a \in Accounts(d) : fan_in(a) \/ fan_out(a) \/ high_velocity(d, wl, a)}
    IN  [a \in keys |->
            (IF fan_in(a) THEN <<"fan_in">> ELSE <<>>)
            \o (IF fan_out(a) THEN <<"fan_out">> ELSE <<>>)
            \o (IF high_velocity(d, wl, a) THEN <<"high_velocity">> ELSE <<>>)]

\* ------------------------------------------------------------------------
\* Cycle detection (detect_cycles)
\* ------------------------------------------------------------------------
\* G.subgraph(nodes): the edges with both ends in nodes
subgraph(g, nodes) == {e \in DOMAIN g : e[1] \in nodes /\ e[2] \in nodes}

\* the nodes reachable from the set S along the edges E (S included)
RECURSIVE reachable(_, _)
reachable(E, S) ==
    LET T == S \cup {e[2] : e \in {x \in E : x[1] \in S}}
    IN  IF T = S THEN S ELSE reachable(E, T)

\* nx.strongly_connected_components over the node set V with edges E
strongly_connected_components(E, V) ==
    {{m \in V : m \in reachable(E, {n}) /\ n \in reachable(E, {m})} : n \in V}

\* the k nodes of highest degree deg[n]; sorted() is stable, so nodes of equal
\* degree keep the iteration order of the dict, taken here to be ascending
RECURSIVE top_by_degree(_, _, _)
top_by_degree(deg, S, k) ==
    IF k <= 0 \/ S = {} THEN {}
    ELSE LET n == CHOOSE x \in S : \A y \in S :
                      deg[x] > deg[y] \/ (deg[x] = deg[y] /\ x <= y)
         IN  {n} \cup top_by_degree(deg, S \ {n}, k - 1)

_trim_scc(g, nodes) ==
    IF Cardinality(nodes) <= MAX_SCC_SIZE THEN nodes
    ELSE LET sub == subgraph(g, nodes)
             deg == [n \in nodes |->
                        Cardinality({e \in sub : e[2] = n}) + Cardinality({e \in sub : e[1] = n})]
         IN  top_by_degree(deg, nodes, MAX_SCC_SIZE)

\* the node set the cycle search runs on (lines 96-109)
search_nodes(g, wl) ==
    LET cands == {n \in Nodes(g) : in_degree(g, n) > 0 /\ out_degree(g, n) > 0}
        sccs  == strongly_connected_components(subgraph(g, cands), cands)
        kept  == UNION {_trim_scc(g, scc) : scc \in {c \in sccs : Cardinality(c) >= 2}}
        nodes == kept \ wl
    IN  IF Cardinality(nodes) > MAX_CYCLE_SEARCH_NODES
        THEN LET pinned == {n \in nodes : _is_fraud(n)}
                 slots  == MAX_CYCLE_SEARCH_NODES - Cardinality(pinned)
                 rest   == [n \in nodes \ pinned |-> in_degree(g, n) + out_degree(g, n)]
             IN  pinned \cup top_by_degree(rest, nodes \ pinned, slots)
        ELSE nodes

\* the elementary cycles that extend the path p (p[1] is the least node of the
\* cycle, which fixes one rotation per cycle) and have at most bound nodes
RECURSIVE cycles_extending(_, _, _)
cycles_extending(E, p, bound) ==
    LET last == p[Len(p)]
        next == {e[2] : e \in {x \in E : x[1] = last}}
    IN  (IF p[1] \in next THEN {p} ELSE {})
        \cup (IF Len(p) < bound
              THEN UNION {cycles_extending(E, Append(p, n), bound) :
                             n \in {m \in next : m > p[1] /\ m \notin Range(p)}}
              ELSE {})

\* nx.simple_cycles(G, length_bound): every elementary cycle of at most
\* length_bound nodes, each once
simple_cycles(E, nodes, length_bound) ==
    UNION {cycles_extending(E, <<n>>, length_bound) : n \in nodes}

\* the lists a set can be iterated as
RECURSIVE orderings(_)
orderings(S) ==
    IF S = {} THEN {<<>>}
    ELSE UNION {{<<x>> \o rest : rest \in orderings(S \ {x})} : x \in S}

cycle_total(g, cs) ==
    LET k == Len(cs)
        edge_sum[i \in 0..k] ==
            IF i = 0 THEN 0 ELSE edge_sum[i - 1] + g[<<cs[i], cs[(i % k) + 1]>>]
    IN  edge_sum[k]

\* keep_cycle without "elif has_fraud: min_a *= 0.5"
keep_cycle_no_halving(g, cs) ==
    LET total == cycle_total(g, cs)
    IN  /\ MIN_CYCLE_LENGTH <= Len(cs) /\ Len(cs) <= MAX_CYCLE_LENGTH
        /\ IF _all_legit(Range(cs))
           THEN total >= 25000 * Len(cs) /\ total >= MIN_CYCLE_AMOUNT * 3
           ELSE total >= MIN_CYCLE_AMOUNT

\* keep_cycle without the length test of line 113
keep_cycle_any_length(g, cs) ==
    LET total == cycle_total(g, cs)
    IN  IF _all_legit(Range(cs))
        THEN total >= 25000 * Len(cs) /\ total >= MIN_CYCLE_AMOUNT * 3
        ELSE IF \E n \in Range(cs) : _is_fraud(n)
        THEN 2 * total >= MIN_CYCLE_AMOUNT
        ELSE total >= MIN_CYCLE_AMOUNT

\* lines 113-131: TRUE iff the cycle cs is appended to raw.  avg < 25_000 is
\* total < 25_000 * len(cs); total >= min_a * 0.5 is 2 * total >= min_a.
keep_cycle(g, cs) ==
    LET total == cycle_total(g, cs)
    IN  /\ MIN_CYCLE_LENGTH <= Len(cs) /\ Len(cs) <= MAX_CYCLE_LENGTH
        /\ IF _all_legit(Range(cs))
           THEN total >= 25000 * Len(cs) /\ total >= MIN_CYCLE_AMOUNT * 3
           ELSE IF \E n \in Range(cs) : _is_fraud(n)
           THEN 2 * total >= MIN_CYCLE_AMOUNT
           ELSE total >= MIN_CYCLE_AMOUNT

\* the lists raw can end as: nx.simple_cycles yields the cycles in an order
\* that follows the iteration order of the set scc_nodes
raw_cycles(g, wl) ==
    LET nodes == search_nodes(g, wl)
        found == simple_cycles(subgraph(g, nodes), nodes, MAX_CYCLE_LENGTH)
    IN  orderings({cs \in found : keep_cycle(g, cs)})

\* union-find over a dict parent (absent key: its own parent)
parent_get(parent, x) == IF x \in DOMAIN parent THEN parent[x] ELSE x

\* find(x) with its path halving; returns the root and the updated parent
RECURSIVE find(_, _)
find(parent, x) ==
    IF parent_get(parent, x) = x THEN [root |-> x, parent |-> parent]
    ELSE LET p2 == [parent EXCEPT ![x] = parent_get(parent, parent[x])]
         IN  find(p2, p2[x])

union(parent, a, b) ==
    LET fa == find(parent, a)
        fb == find(fa.parent, b)
    IN  IF fa.root # fb.root
        THEN [n \in DOMAIN fb.parent \cup {fa.root} |->
                 IF n = fa.root THEN fb.root ELSE fb.parent[n]]
        ELSE fb.parent

\* union_cycle that joins c[0] with c[1] only
union_cycle_first_pair(parent, c, i) ==
    IF i > Len(c) THEN parent ELSE union(parent, c[1], c[2])

\* for n in c[1:]: union(c[0], n)
RECURSIVE union_cycle(_, _, _)
union_cycle(parent, c, i) ==
    IF i > Len(c) THEN parent ELSE union_cycle(union(parent, c[1], c[i]), c, i + 1)

\* for c in raw: ...
RECURSIVE union_all(_, _, _)
union_all(parent, raw, j) ==
    IF j > Len(raw) THEN parent
    ELSE union_all(union_cycle(parent, raw[j], 2), raw, j + 1)

\* groups that are the member sets of the cycles, not merged
cycle_groups_unmerged(raw) ==
    {Range(raw[j]) : j \in DOMAIN raw}

\* groups[find(n)].add(n) for n in all_cm: the member sets, keyed by root
cycle_groups(raw) ==
    LET all_cm == UNION {Range(raw[j]) : j \in DOMAIN raw}
        parent == union_all(<<>>, raw, 1)
        root(n) == find(parent, n).root
    IN  {{m \in all_cm : root(m) = r} : r \in {root(n) : n \in all_cm}}

\* the groups in the order of sorted(groups.items(), key=smallest member)
RECURSIVE groups_sorted(_)
groups_sorted(gs) ==
    IF gs = {} THEN <<>>
    ELSE LET g0 == CHOOSE x \in gs : \A y \in gs : Min(x) <= Min(y)
         IN  <<g0>> \o groups_sorted(gs \ {g0})

\* lines 133-166, given raw.  A ring label f"RING_{idx:03d}" is modelled by
\* its number idx; 0 is None.
rings_of_cycles(raw) ==
    LET order  == groups_sorted(cycle_groups(raw))
        all_cm == UNION {Range(raw[j]) : j \in DOMAIN raw}
    IN  [ring_map      |-> [m \in all_cm |->
                              Max({idx \in DOMAIN order : m \in order[idx]})],
         rings         |-> [idx \in DOMAIN order |-> order[idx]],
         member_cycles |-> [n \in all_cm |->
                              SelectSeq(raw, LAMBDA c : n \in Range(c))],
         raw_cycles    |-> raw,
         cycle_members |-> all_cm]

\* the possible results of detect_cycles
detect_cycles(g, wl) == {rings_of_cycles(raw) : raw \in raw_cycles(g, wl)}

\* ------------------------------------------------------------------------
\* Shell detection (detect_shell_chains)
\* ------------------------------------------------------------------------
\* tc = value_counts over both columns: the rows an account occurs in
tx_count(d, a) ==
    Cardinality({i \in DOMAIN d : d[i].sender = a})
    + Cardinality({i \in DOMAIN d : d[i].receiver = a})

\* candidates from which the members of the cycle rings are not removed
potential_shells_keep_cycle_members(g, d, wl, cycle_members) ==
    LET cands == {a \in Accounts(d) :
                     tx_count(d, a) >= 1 /\ tx_count(d, a) <= SHELL_MAX_TX_COUNT} \ wl
    IN  {n \in cands : n \in Nodes(g) /\ in_degree(g, n) = 1 /\ out_degree(g, n) >= 1}

\* pot (lines 227-232)
potential_shells(g, d, wl, cycle_members) ==
    LET cands == {a \in Accounts(d) :
                     tx_count(d, a) >= 1 /\ tx_count(d, a) <= SHELL_MAX_TX_COUNT}
                 \ (wl \cup cycle_members)
    IN  {n \in cands : n \in Nodes(g) /\ in_degree(g, n) = 1 /\ out_degree(g, n) >= 1}

\* list(G.predecessors(n))[0], list(G.successors(n))[0]: the edges are added
\* in the order of the sorted (sender_id, receiver_id) groups, so the first
\* neighbour is the least one
first_pred(g, n) == Min(predecessors(g, n))
first_succ(g, n) == Min(successors(g, n))

\* the backward loop (lines 242-248)
RECURSIVE walk_back(_, _, _, _)
walk_back(g, pot, seg, curr) ==
    IF curr \in pot /\ curr \notin Range(seg)
    THEN LET seg1 == <<curr>> \o seg
         IN  IF predecessors(g, curr) = {} THEN seg1
             ELSE LET prev == first_pred(g, curr)
                  IN  IF prev \in pot THEN walk_back(g, pot, seg1, prev)
                      ELSE <<prev>> \o seg1
    ELSE seg

\* the forward loop (lines 250-258)
RECURSIVE walk_forward(_, _, _, _)
walk_forward(g, pot, seg, curr) ==
    IF successors(g, curr) = {} THEN seg
    ELSE LET nxt == first_succ(g, curr)
         IN  IF nxt \in pot /\ nxt \notin Range(seg)
             THEN walk_forward(g, pot, Append(seg, nxt), nxt)
             ELSE Append(seg, nxt)

\* seg as built for one start
build_chain(g, pot, start) ==
    LET back == walk_back(g, pot, <<>>, start)
    IN  walk_forward(g, pot, back, back[Len(back)])

\* shells = [n for n in seg if n in pot]
chain_shells(pot, seg) == SelectSeq(seg, LAMBDA n : n \in pot)

\* lines 260-262
chain_accepted(pot, seg) == Len(seg) >= 4 /\ Len(chain_shells(pot, seg)) >= 2

\* a dict as its key list (insertion order) and its values
dict_set(dct, k, v) ==
    [keys |-> IF k \in Range(dct.keys) THEN dct.keys ELSE Append(dct.keys, k),
     val  |-> [x \in DOMAIN dct.val \cup {k} |-> IF x = k THEN v ELSE dct.val[x]]]

\* for n in shells: shell_map[n] = len(seg)
RECURSIVE record_shells(_, _, _, _)
record_shells(dct, shells, i, len) ==
    IF i > Len(shells) THEN dct
    ELSE record_shells(dict_set(dct, shells[i], len), shells, i + 1, len)

\* ------------------------------------------------------------------------
\* Mastermind detection (detect_mastermind)
\* ------------------------------------------------------------------------
\* The program computes in floating point; the model computes the same
\* expressions exactly, a value x as the fraction [n |-> .., d |-> ..], d > 0.
RECURSIVE GCD(_, _)
GCD(a, b) == IF b = 0 THEN a ELSE GCD(b, a % b)

Frac(n, d) == LET k == GCD(IF n < 0 THEN -n ELSE n, d) IN [n |-> n \div k, d |-> d \div k]
FracLess(x, y) == x.n * y.d < y.n * x.d
FracAdd(x, y) == Frac(x.n * y.d + y.n * x.d, x.d * y.d)
FracMul(x, y) == Frac(x.n * y.n, x.d * y.d)

RECURSIVE SumOver(_, _)
SumOver(f, S) ==
    IF S = {} THEN 0
    ELSE LET x == CHOOSE y \in S : TRUE IN f[x] + SumOver(f, S \ {x})

\* round(x, k) of a fraction of the unit of the k-th decimal: to the nearest
\* whole number, a half to the even one
round_half_even(num, den) ==
    LET q == num \div den
        r == num % den
    IN  IF 2 * r < den THEN q
        ELSE IF 2 * r > den THEN q + 1
        ELSE IF q % 2 = 0 THEN q ELSE q + 1

\* norm(d): min-max to [0,1], every value 1/2 when all are equal
norm(f) ==
    LET mn == Min({f[k] : k \in DOMAIN f})
        mx == Max({f[k] : k \in DOMAIN f})
    IN  [k \in DOMAIN f |-> IF mx > mn THEN Frac(f[k] - mn, mx - mn) ELSE Frac(1, 2)]

\* breadth-first search from the nodes at distance k (frontier): the distance
\* to every reached node and the number of shortest paths to it
RECURSIVE shortest_paths(_, _, _, _, _)
shortest_paths(E, frontier, dist, sigma, k) ==
    LET nxt == {e[2] : e \in {x \in E : x[1] \in frontier}} \ DOMAIN dist
    IN  IF nxt = {} THEN [dist |-> dist, sigma |-> sigma]
        ELSE shortest_paths(E, nxt,
                 [n \in DOMAIN dist \cup nxt |-> IF n \in nxt THEN k + 1 ELSE dist[n]],
                 [n \in DOMAIN sigma \cup nxt |->
                     IF n \in nxt THEN SumOver(sigma, {u \in frontier : <<u, n>> \in E})
                     ELSE sigma[n]],
                 k + 1)

\* the least common multiple of the numbers in S
RECURSIVE LCM(_)
LCM(S) ==
    IF S = {} THEN 1
    ELSE LET x == CHOOSE y \in S : TRUE
             r == LCM(S \ {x})
         IN  (r * x) \div GCD(r, x)

\* for each v the sum over the pairs s, t of the share of the shortest s-t
\* paths that pass through v, times the common denominator L
pair_dependencies(V, sp, L) ==
    LET through(v) ==
            {p \in V \X V :
                /\ p[1] # p[2] /\ p[1] # v /\ p[2] # v
                /\ v \in DOMAIN sp[p[1]].dist
                /\ p[2] \in DOMAIN sp[v].dist
                /\ p[2] \in DOMAIN sp[p[1]].dist
                /\ sp[p[1]].dist[v] + sp[v].dist[p[2]] = sp[p[1]].dist[p[2]]}
    IN  [v \in V |->
            SumOver([p \in through(v) |->
                        sp[p[1]].sigma[v] * sp[v].sigma[p[2]] * (L \div sp[p[1]].sigma[p[2]])],
                    through(v))]

\* nx.betweenness_centrality(sub) up to its positive normalisation factor,
\* which norm cancels
betweenness_centrality(E, V) ==
    LET sp == [s \in V |-> shortest_paths(E, {s}, [n \in {s} |-> 0], [n \in {s} |-> 1], 0)]
    IN  pair_dependencies(V, sp,
            LCM(UNION {{sp[s].sigma[t] : t \in DOMAIN sp[s].sigma} : s \in V}))

\* the composite c of each member of a ring (line 308)
composite(g, mbrs) ==
    LET sub == subgraph(g, mbrs)
        bc  == norm(betweenness_centrality(sub, mbrs))
        od  == norm([n \in mbrs |-> Cardinality({e \in sub : e[1] = n})])
        vol == norm([n \in mbrs |-> SumOver([e \in sub |-> g[e]], {e \in sub : e[1] = n})])
    IN  [n \in mbrs |->
            FracAdd(FracMul(bc[n], Frac(1, 10)),
                    FracAdd(FracMul(od[n], Frac(5, 10)), FracMul(vol[n], Frac(4, 10))))]

\* the score s of lines 313-318 in tenths, rounded to one decimal
mastermind_score(c, ring_count) ==
    LET base == IF ~FracLess(c, Frac(9, 10))
                THEN FracAdd(Frac(950, 1), FracMul(FracAdd(c, Frac(-9, 10)), Frac(500, 1)))
                ELSE IF ~FracLess(c, Frac(8, 10))
                THEN FracAdd(Frac(850, 1), FracMul(FracAdd(c, Frac(-8, 10)), Frac(1000, 1)))
                ELSE FracAdd(Frac(750, 1), FracMul(FracAdd(c, Frac(-7, 10)), Frac(1000, 1)))
        s    == FracAdd(base, Frac((ring_count - 1) * 150, 1))
    IN  IF FracLess(Frac(1000, 1), s) THEN 1000 ELSE round_half_even(s.n, s.d)

\* the rings the loop of lines 279-320 does not skip (lines 280-282)
eligible_rings(rings) ==
    {rid \in DOMAIN rings : Cardinality(rings[rid]) >= 2 /\ ~_all_legit(rings[rid])}

\* the composite of every member of every eligible ring
ring_composites(g, rings) ==
    [rid \in eligible_rings(rings) |-> composite(g, rings[rid])]

\* the members a ring's loop can end with as best: "if c > best_c" keeps the
\* first member of the highest composite in the iteration order of the set
\* mbrs, which is any of the members of the highest composite
best_members(c) ==
    {n \in DOMAIN c : \A m \in DOMAIN c : ~FracLess(c[n], c[m])}

\* the rings that get a mastermind: best composite >= 0.75 (line 310)
mastermind_rings(comp) ==
    {rid \in DOMAIN comp : \E n \in DOMAIN comp[rid] : ~FracLess(comp[rid][n], Frac(75, 100))}

\* the possible results, given the composites
mastermind_results(rings, comp) ==
    LET ring_count(m) == Cardinality({rid \in DOMAIN rings : m \in rings[rid]})
        rids == mastermind_rings(comp)
        best == [rid \in rids |-> best_members(comp[rid])]
    IN  {[rid \in rids |->
             [account_id |-> pick[rid],
              mastermind_score |->
                  mastermind_score(comp[rid][pick[rid]], ring_count(pick[rid]))]] :
         pick \in {f \in [rids -> UNION {best[rid] : rid \in rids}] :
                      \A rid \in rids : f[rid] \in best[rid]}}

\* the possible results of detect_mastermind
detect_mastermind(g, rings) == mastermind_results(rings, ring_composites(g, rings))

\* ------------------------------------------------------------------------
\* Suspicion scoring (compute_suspicion_score, and run lines 404-465)
\* ------------------------------------------------------------------------
\* Scores are in hundredths (40.0 is 4000), risk and mastermind scores in tenths.

\* the loop of lines 416-419: the most distinct senders in a window
RECURSIVE velocity_max(_, _, _, _, _)
velocity_max(ts, sns, left, right, mx) ==
    IF right > Len(ts) THEN mx
    ELSE LET l == advance_left(ts, left, right)
             u == Cardinality(Range(SubSeq(sns, l, right)))
         IN  velocity_max(ts, sns, l, right + 1, IF u > mx THEN u ELSE mx)

\* vel_counts.get(acct, 0)
velocity_count(d, all_ids, acct) ==
    LET I   == {i \in DOMAIN d : d[i].receiver = acct}
        grp == sort_by_timestamp(d, I)
        ts  == [k \in DOMAIN grp |-> d[grp[k]].timestamp]
        sns == [k \in DOMAIN grp |-> d[grp[k]].sender]
    IN  IF acct \in all_ids /\ I # {} THEN velocity_max(ts, sns, 1, 1, 0) ELSE 0

cycle_score(member_cycles, acct) ==
    LET ccs == IF acct \in DOMAIN member_cycles THEN member_cycles[acct] ELSE <<>>
        shortest == Min({Len(ccs[j]) : j \in DOMAIN ccs})
    IN  IF ccs # <<>> /\ shortest <= 3 THEN 4000
        ELSE IF ccs # <<>> /\ shortest = 4 THEN 3500
        ELSE IF ccs # <<>> THEN 3000
        ELSE 0

\* min(25.0, (vel / VELOCITY_TX_THRESHOLD) * 25.0)
velocity_score(vel) ==
    IF vel >= VELOCITY_TX_THRESHOLD THEN Frac(2500, 1)
    ELSE Frac(vel * 2500, VELOCITY_TX_THRESHOLD)

\* fan_score without the cap min(20.0, ...)
fan_score_uncapped(g, pats, acct) ==
    LET in_d  == in_degree(g, acct)
        out_d == out_degree(g, acct)
        N     == Cardinality(Nodes(g))
        den   == IF N * 2 > 1 THEN N * 2 ELSE 1
        base  == Frac((in_d + out_d) * 20000, den)
    IN  IF "fan_in" \in Range(pats) /\ "fan_out" \in Range(pats) THEN Frac(2000, 1)
        ELSE IF "fan_in" \in Range(pats) \/ "fan_out" \in Range(pats)
        THEN (IF FracLess(base, Frac(1500, 1)) THEN Frac(1500, 1) ELSE base)
        ELSE base

\* lines 363-367
fan_score(g, pats, acct) ==
    LET in_d  == in_degree(g, acct)
        out_d == out_degree(g, acct)
        N     == Cardinality(Nodes(g))
        den   == IF N * 2 > 1 THEN N * 2 ELSE 1
        raw   == Frac((in_d + out_d) * 20000, den)
        base  == IF FracLess(Frac(2000, 1), raw) THEN Frac(2000, 1) ELSE raw
    IN  IF "fan_in" \in Range(pats) /\ "fan_out" \in Range(pats) THEN Frac(2000, 1)
        ELSE IF "fan_in" \in Range(pats) \/ "fan_out" \in Range(pats)
        THEN (IF FracLess(base, Frac(1500, 1)) THEN Frac(1500, 1) ELSE base)
        ELSE base

shell_score(shell_val, acct) ==
    LET d == IF acct \in DOMAIN shell_val THEN shell_val[acct] ELSE 0
    IN  IF d >= 4 THEN 1500 ELSE IF d = 3 THEN 1000 ELSE IF d >= 1 THEN 500 ELSE 0

compute_suspicion_score(acct, g, cycle_data, smurf, shell_val, vel) ==
    LET cscore == cycle_score(cycle_data.member_cycles, acct)
        vscore == velocity_score(vel)
        fscore == fan_score(g, IF acct \in DOMAIN smurf THEN smurf[acct] ELSE <<>>, acct)
        sscore == shell_score(shell_val, acct)
        total  == FracAdd(FracAdd(Frac(cscore, 1), vscore), FracAdd(fscore, Frac(sscore, 1)))
        rtotal == round_half_even(total.n, total.d)
    IN  [total          |-> IF rtotal > 10000 THEN 10000 ELSE rtotal,
         cycle_score    |-> cscore,
         velocity_score |-> round_half_even(vscore.n, vscore.d),
         fan_score      |-> round_half_even(fscore.n, fscore.d),
         shell_score    |-> sscore]

\* pats of lines 439-447: the tags without repetition, in order of first use
RECURSIVE dedup(_)
dedup(q) ==
    IF q = <<>> THEN <<>>
    ELSE LET front == dedup(SubSeq(q, 1, Len(q) - 1))
         IN  IF q[Len(q)] \in Range(front) THEN front ELSE Append(front, q[Len(q)])

cycle_tag(k) ==
    CASE k = 3 -> "cycle_length_3" [] k = 4 -> "cycle_length_4"
      [] k = 5 -> "cycle_length_5" [] OTHER -> "cycle_length_other"

detected_patterns(acct, cycle_data, smurf, shell_val) ==
    LET ccs == IF acct \in DOMAIN cycle_data.member_cycles
               THEN cycle_data.member_cycles[acct] ELSE <<>>
    IN  dedup([j \in DOMAIN ccs |-> cycle_tag(Len(ccs[j]))]
              \o (IF acct \in DOMAIN smurf THEN smurf[acct] ELSE <<>>)
              \o (IF acct \in DOMAIN shell_val
                  THEN <<"shell_chain", "low_transaction_intermediary">> ELSE <<>>))

\* the suspect record of one account (lines 449-465); ring_id 0 is None,
\* mastermind_score -1 is None
suspect_of(acct, g, d, all_ids, cycle_data, smurf, shell_val, mm) ==
    LET sc == compute_suspicion_score(acct, g, cycle_data, smurf, shell_val,
                                      velocity_count(d, all_ids, acct))
        mm_rids == {rid \in DOMAIN mm : mm[rid].account_id = acct}
    IN  [account_id       |-> acct,
         suspicion_score  |-> sc.total,
         detected_patterns |-> detected_patterns(acct, cycle_data, smurf, shell_val),
         ring_id          |-> IF acct \in DOMAIN cycle_data.ring_map
                              THEN cycle_data.ring_map[acct] ELSE 0,
         is_mastermind    |-> mm_rids # {},
         mastermind_score |-> IF mm_rids # {} THEN mm[Max(mm_rids)].mastermind_score ELSE -1,
         score_breakdown  |-> [cycle_score    |-> sc.cycle_score,
                               velocity_score |-> sc.velocity_score,
                               fan_score      |-> sc.fan_score,
                               shell_score    |-> sc.shell_score]]

\* the list suspects of line 431-465, as the set of its records: its order is
\* the iteration order of the set all_ids and shows only in the final sort
score_suspects(g, d, cycle_data, smurf, shell_val, mm) ==
    LET all_ids == DOMAIN cycle_data.ring_map \cup DOMAIN smurf \cup DOMAIN shell_val
        recs == {suspect_of(a, g, d, all_ids, cycle_data, smurf, shell_val, mm) : a \in all_ids}
    IN  {s \in recs : s.suspicion_score > 0}

\* ------------------------------------------------------------------------
\* Ring assembly (run lines 467-556)
\* ------------------------------------------------------------------------
\* rt = the rows with both ends in mbrs
ring_rows(d, mbrs) == {i \in DOMAIN d : d[i].sender \in mbrs /\ d[i].receiver \in mbrs}

ring_record(rid, mbrs, type, risk, mm_acct, d) ==
    [ring_id            |-> rid,
     member_accounts    |-> mbrs,
     pattern_type       |-> type,
     risk_score         |-> risk,
     mastermind_account |-> mm_acct,
     transaction_count  |-> Cardinality(ring_rows(d, mbrs)),
     total_amount       |-> SumAmount(d, ring_rows(d, mbrs))]

\* lines 469-483: one record per cycle ring, in the order of rings
cycle_rings(d, rings, suspects, mm) ==
    [rid \in DOMAIN rings |->
        LET ms == {x.suspicion_score : x \in {y \in suspects : y.account_id \in rings[rid]}}
        IN  ring_record(rid, rings[rid], "cycle",
                        IF ms # {} THEN round_half_even(Max(ms), 10) ELSE 500,
                        IF rid \in DOMAIN mm THEN mm[rid].account_id ELSE 0, d)]

\* for m in members: if m not in ring_map: ring_map[m] = rid, and the suspect
\* of m gets ring_id rid (lines 518-522 and 552-556)
attach(st, members, rid) ==
    LET fresh == members \ DOMAIN st.ring_map
    IN  [st EXCEPT
            !.ring_map = [m \in DOMAIN st.ring_map \cup fresh |->
                             IF m \in fresh THEN rid ELSE st.ring_map[m]],
            !.suspects = {IF x.account_id \in fresh THEN [x EXCEPT !.ring_id = rid] ELSE x :
                             x \in st.suspects}]

\* one pass of the loop of lines 487-522 for the key hub of smurf_map
smurf_ring_step(st, g, d, wl, hub, pats) ==
    LET preds    == predecessors(g, hub)
        mbrs_set == {hub} \cup preds
        rid      == st.ctr
    IN  IF \/ hub \in DOMAIN st.ring_map
           \/ "fan_in" \notin Range(pats)
           \/ hub \in wl
           \/ Cardinality(preds) < MIN_FAN_COUNT
           \/ _all_legit(mbrs_set)
           \/ ("high_velocity" \notin Range(pats) /\ ~\E m \in mbrs_set : _is_fraud(m))
        THEN st
        ELSE LET risk == IF 550 + Cardinality(preds) * 4 > 849 THEN 849
                         ELSE 550 + Cardinality(preds) * 4
                 st1  == [st EXCEPT
                            !.fraud_rings = Append(@, ring_record(rid, mbrs_set, "smurfing",
                                                                  risk, 0, d)),
                            !.ctr = rid + 1]
             IN  attach(st1, mbrs_set, rid)

\* the keys of smurf_map in insertion order: the fan_in accounts, then the
\* other fan_out accounts, then the other high_velocity accounts, each group
\* in the sorted order of its groupby
smurf_keys(smurf) ==
    LET fi == {a \in DOMAIN smurf : "fan_in" \in Range(smurf[a])}
        fo == {a \in DOMAIN smurf \ fi : "fan_out" \in Range(smurf[a])}
    IN  sorted(fi) \o sorted(fo) \o sorted(DOMAIN smurf \ (fi \cup fo))

RECURSIVE smurf_rings(_, _, _, _, _, _, _)
smurf_rings(st, g, d, wl, smurf, keys, i) ==
    IF i > Len(keys) THEN st
    ELSE smurf_rings(smurf_ring_step(st, g, d, wl, keys[i], smurf[keys[i]]),
                     g, d, wl, smurf, keys, i + 1)

\* the set chain of lines 529-536 for the seed sh_node: the stack walk adds the
\* shell_map nodes it reaches over successors and predecessors, expanding only
\* shell_map nodes not in seen_sh
shell_component(g, shell_keys, seen_sh, sh_node) ==
    LET V == shell_keys \ seen_sh
        E == {e \in DOMAIN g : e[1] \in V /\ e[2] \in V}
    IN  reachable(E \cup {<<e[2], e[1]>> : e \in E}, {sh_node})

\* one pass of the loop of lines 527-556 for the key sh_node of shell_map
shell_ring_step(st, g, d, shell_keys, sh_node) ==
    IF sh_node \in st.seen_sh \/ sh_node \in DOMAIN st.ring_map THEN st
    ELSE LET chain == shell_component(g, shell_keys, st.seen_sh, sh_node)
             rid   == st.ctr
             st1   == [st EXCEPT !.seen_sh = @ \cup chain]
         IN  IF Cardinality(chain) >= 2
             THEN attach([st1 EXCEPT
                            !.fraud_rings = Append(@, ring_record(rid, chain, "shell",
                                                   500 + Cardinality(chain) * 15, 0, d)),
                            !.ctr = rid + 1],
                         chain, rid)
             ELSE st1

RECURSIVE shell_rings(_, _, _, _, _)
shell_rings(st, g, d, keys, i) ==
    IF i > Len(keys) THEN st
    ELSE shell_rings(shell_ring_step(st, g, d, Range(keys), keys[i]), g, d, keys, i + 1)

\* ------------------------------------------------------------------------
\* Post-filter (run lines 558-623)
\* ------------------------------------------------------------------------
\* a drop that removes the suspects of the rings without counting them
drop_uncounted(pf, rids) ==
    [suspects    |-> {x \in pf.suspects : x.ring_id \notin rids},
     fraud_rings |-> SelectSeq(pf.fraud_rings, LAMBDA r : r.ring_id \notin rids),
     fp          |-> pf.fp]

\* a drop that removes the rings and keeps their suspects
drop_rings_only(pf, rids) ==
    [suspects    |-> pf.suspects,
     fraud_rings |-> SelectSeq(pf.fraud_rings, LAMBDA r : r.ring_id \notin rids),
     fp          |-> pf.fp + Cardinality({x \in pf.suspects : x.ring_id \in rids})]

\* drop(rids) on the triple [suspects, fraud_rings, fp]
drop(pf, rids) ==
    [suspects    |-> {x \in pf.suspects : x.ring_id \notin rids},
     fraud_rings |-> SelectSeq(pf.fraud_rings, LAMBDA r : r.ring_id \notin rids),
     fp          |-> pf.fp + Cardinality({x \in pf.suspects : x.ring_id \in rids})]

ring_ids_where(rings, P(_)) == {rings[i].ring_id : i \in {j \in DOMAIN rings : P(rings[j])}}

\* lines 574-586: the cycle rings without a fraud-prefixed member to drop
bad_cycle_rings(pf) ==
    LET sigs == {"fan_out", "fan_in", "high_velocity", "shell_chain",
                 "low_transaction_intermediary"}
        rpats(r) == UNION {Range(x.detected_patterns) :
                              x \in {y \in pf.suspects : y.ring_id = r.ring_id}}
        has_sig(r) == rpats(r) \cap sigs # {}
        bad(r) == /\ r.pattern_type = "cycle"
                  /\ ~\E m \in r.member_accounts : _is_fraud(m)
                  /\ IF _all_legit(r.member_accounts)
                     THEN r.risk_score < 800 \/ ~has_sig(r)
                     ELSE r.risk_score < 450 /\ ~has_sig(r)
    IN  ring_ids_where(pf.fraud_rings, bad)

\* lines 589-597
drop_orphans(pf) ==
    LET vol_pats == {"fan_out", "fan_in", "high_velocity"}
        orph == {x.account_id : x \in {y \in pf.suspects :
                    /\ y.ring_id = 0
                    /\ y.score_breakdown.cycle_score = 0
                    /\ y.score_breakdown.shell_score = 0
                    /\ y.suspicion_score < 4500
                    /\ Range(y.detected_patterns) \subseteq vol_pats}}
    IN  [pf EXCEPT !.fp = @ + Cardinality(orph),
                   !.suspects = {x \in pf.suspects : x.account_id \notin orph}]

\* lines 599-604; a mastermind_account of None (0) is not in wl
whitelist_sweep(pf, wl) ==
    [suspects    |-> {x \in pf.suspects : x.account_id \notin wl},
     fraud_rings |-> SelectSeq(pf.fraud_rings, LAMBDA r : r.mastermind_account \notin wl),
     fp          |-> pf.fp + Cardinality({x \in pf.suspects : x.account_id \in wl})]

\* the triple [suspects, fraud_rings, fp] after each step of lines 559-604:
\* at the start, after each of the four drops, after the orphan rule and after
\* the whitelist sweep
post_filter_steps(suspects, fraud_rings, wl) ==
    LET pf0 == [suspects |-> suspects, fraud_rings |-> fraud_rings, fp |-> 0]
        pf1 == drop(pf0, ring_ids_where(pf0.fraud_rings,
                        LAMBDA r : Cardinality(r.member_accounts) > 100))
        pf2 == drop(pf1, ring_ids_where(pf1.fraud_rings,
                        LAMBDA r : r.total_amount < MIN_CYCLE_AMOUNT))
        pf3 == drop(pf2, ring_ids_where(pf2.fraud_rings,
                        LAMBDA r : /\ r.pattern_type = "smurfing"
                                   /\ Cardinality(r.member_accounts) > 20
                                   /\ r.total_amount > 1000000))
        pf4 == drop(pf3, bad_cycle_rings(pf3))
        pf5 == drop_orphans(pf4)
    IN  <<pf0, pf1, pf2, pf3, pf4, pf5, whitelist_sweep(pf5, wl)>>

post_filter(suspects, fraud_rings, wl) ==
    LET steps == post_filter_steps(suspects, fraud_rings, wl)
    IN  steps[Len(steps)]

\* suspects.sort(key=suspicion_score, reverse=True): the sort is stable, so the
\* suspects of equal score stay in the order of the list, which is the
\* iteration order of the set all_ids: every descending arrangement can result
RECURSIVE sorted_suspects(_)
sorted_suspects(S) ==
    IF S = {} THEN {<<>>}
    ELSE LET top == {x \in S : \A y \in S : x.suspicion_score >= y.suspicion_score}
         IN  UNION {{<<x>> \o rest : rest \in sorted_suspects(S \ {x})} : x \in top}

\* the returned dict without analysis_id, timestamp and processing_time_seconds
analysis_result(g, suspects_list, pf) ==
    [suspicious_accounts |-> suspects_list,
     fraud_rings         |-> pf.fraud_rings,
     summary |-> [total_accounts_analyzed        |-> Cardinality(Nodes(g)),
                  suspicious_accounts_flagged    |-> Len(suspects_list),
                  fraud_rings_detected           |-> Len(pf.fraud_rings),
                  mastermind_accounts_identified |->
                      Cardinality({x \in pf.suspects : x.is_mastermind}),
                  false_positives_filtered       |-> pf.fp]]

\* ------------------------------------------------------------------------
\* Bounded inputs
\* ------------------------------------------------------------------------
\* A table is put together from items: an item is a list of rows, one row or
\* a crowd (count USER_ accounts, each in one transaction with hub).
Single(s, r, amt, t) == <<Row(s, r, amt, t)>>

CrowdIn(hub, first, count, amt, t) ==
    [i \in 1..count |-> Row(User(first + i - 1), hub, amt, t)]

CrowdOut(hub, first, count, amt, t) ==
    [i \in 1..count |-> Row(hub, User(first + i - 1), amt, t)]

\* Family "cycles": the triangles ACC_1-ACC_2-ACC_3, ACC_3-CYC3_1-CYC3_2 and
\* CYC3_1-CYC3_2-CYC3_3, which form a chain, and the edges that close cycles
\* of 2, 4, 5 and 6 accounts through ACC_1.
MaxItemsCycles == 8

UniverseCycles ==
    {Single(e[1], e[2], 5000, 0) :
        e \in {<<1, 2>>, <<2, 3>>, <<3, 1>>, <<3, 4>>, <<4, 5>>, <<5, 3>>,
               <<5, 6>>, <<6, 4>>,
               <<2, 1>>, <<4, 1>>, <<5, 1>>, <<6, 1>>}}

\* Family "gate": a triangle of each kind of account, and two mixed ones, with
\* amounts on both sides of each threshold of the amount gate.
MaxItemsGate == 3

UniverseGate ==
    {Single(e[1], e[2], amt, 0) :
        e \in {<<1, 2>>, <<2, 3>>, <<3, 1>>, <<1, 7>>, <<8, 1>>}, amt \in {1000, 2000}}
    \cup {Single(e[1], e[2], amt, 0) :
        e \in {<<4, 5>>, <<5, 6>>, <<6, 4>>, <<4, 7>>, <<8, 4>>}, amt \in {500, 1000}}
    \cup {Single(e[1], e[2], amt, 0) :
        e \in {<<7, 8>>, <<8, 9>>, <<9, 7>>}, amt \in {10000, 25000}}
    \cup {Single(7, 8, 1000, 0)}

\* Family "two": the triangles ACC_1-ACC_2-CYC3_1 and ACC_3-CYC3_2-CYC3_3.
MaxItemsTwo == 6

UniverseTwo ==
    {Single(e[1], e[2], amt, 0) :
        e \in {<<1, 2>>, <<2, 4>>, <<4, 1>>}, amt \in {1000, 2000}}
    \cup {Single(e[1], e[2], 2000, 0) : e \in {<<3, 5>>, <<5, 6>>, <<6, 3>>}}

\* Family "velocity": crowds paying ACC_1 at hours 0, 1, 72 and 73, and the
\* payments ACC_1 -> ACC_2 -> ACC_3.
MaxItemsVelocity == 3

UniverseVelocity ==
    {CrowdIn(1, first, count, 1000, t) :
        first \in {1, 4, 6}, count \in {5, 6}, t \in {0, 1, 72, 73}}
    \cup {Single(1, 2, 1000, 0), Single(2, 3, 1000, 0)}

\* Family "shell": the path ACC_1 -> ACC_2 -> ACC_3 -> CYC3_1 -> CYC3_2 -> CYC3_3,
\* edges that branch it, merge into it or close a cycle on it, and repeated
\* payments ACC_2 -> ACC_3.
MaxItemsShell == 8

UniverseShell ==
    {Single(e[1], e[2], 1000, 0) :
        e \in {<<1, 2>>, <<2, 3>>, <<4, 5>>, <<5, 6>>, <<3, 1>>, <<1, 3>>, <<2, 5>>, <<6, 4>>}}
    \cup {Single(3, 4, 5000, 0), Single(2, 3, 1000, 1), Single(2, 3, 1000, 2)}

\* Family "hub": the path ACC_1 -> ACC_2 -> ACC_3 -> CYC3_1 -> CYC3_2 -> CYC3_3,
\* crowds that pay CYC3_1 or LEGIT_1, and a crowd paid by CYC3_1.
MaxItemsHub == 8

UniverseHub ==
    {Single(1, 2, 1000, 0), Single(2, 3, 5000, 0), Single(3, 4, 1000, 0),
     Single(4, 5, 1000, 0), Single(5, 6, 1000, 0),
     CrowdIn(4, 1, 9, 1000, 0), CrowdIn(4, 10, 1, 1000, 100),
     CrowdOut(4, 11, 10, 1000, 0), CrowdIn(7, 1, 10, 1000, 0)}

\* Family "merchant": ACC_1 with up to 101 counterparties, on the triangle
\* ACC_1 -> ACC_2 -> ACC_3 -> ACC_1, and a crowd that pays ACC_2.
MaxItemsMerchant == 7

UniverseMerchant ==
    {Single(1, 2, 5000, 0), Single(2, 3, 5000, 0), Single(3, 1, 5000, 0),
     CrowdOut(1, 1, 98, 1000, 0), CrowdIn(1, 99, 2, 1000, 0), CrowdIn(2, 99, 10, 1000, 0),
     CrowdOut(1, 1, 97, 1000, 0)}

\* Family "tie": the triangle ACC_1-ACC_2-CYC3_1, whose members score the
\* same, and the path ACC_3 -> CYC3_2 -> CYC3_3.
MaxItemsTie == 5

UniverseTie ==
    {Single(e[1], e[2], 2000, 0) :
        e \in {<<1, 2>>, <<2, 4>>, <<4, 1>>, <<3, 5>>, <<5, 6>>}}

\* Family "masterminds": two triangles, ACC_1-ACC_2-ACC_3 and
\* CYC3_1-CYC3_2-CYC3_3, each with a member that sends to two others of the
\* ring, and the two edges that join the triangles into longer cycles.
MaxItemsMasterminds == 9

UniverseMasterminds ==
    {Single(e[1], e[2], 5000, 0) :
        e \in {<<1, 2>>, <<2, 3>>, <<3, 1>>, <<2, 1>>,
               <<4, 5>>, <<5, 6>>, <<6, 4>>, <<5, 4>>,
               <<3, 4>>, <<4, 1>>}}

Universe(f) ==
    CASE f = "cycles" -> UniverseCycles
      [] f = "gate" -> UniverseGate
      [] f = "two" -> UniverseTwo
      [] f = "velocity" -> UniverseVelocity
      [] f = "shell" -> UniverseShell
      [] f = "hub" -> UniverseHub
      [] f = "merchant" -> UniverseMerchant
      [] f = "tie" -> UniverseTie
      [] f = "masterminds" -> UniverseMasterminds

MaxItems(f) ==
    CASE f = "cycles" -> MaxItemsCycles
      [] f = "gate" -> MaxItemsGate
      [] f = "two" -> MaxItemsTwo
      [] f = "velocity" -> MaxItemsVelocity
      [] f = "shell" -> MaxItemsShell
      [] f = "hub" -> MaxItemsHub
      [] f = "merchant" -> MaxItemsMerchant
      [] f = "tie" -> MaxItemsTie
      [] f = "masterminds" -> MaxItemsMasterminds

RECURSIVE concat(_)
concat(q) == IF q = <<>> THEN <<>> ELSE q[1] \o concat(SubSeq(q, 2, Len(q)))

\* the table of a set of items, in one fixed row order
\* a set as a list, in one fixed order
RECURSIVE as_list(_)
as_list(S) ==
    IF S = {} THEN <<>>
    ELSE LET x == CHOOSE y \in S : TRUE IN <<x>> \o as_list(S \ {x})

table_of(its) == concat(as_list(its))

\* ------------------------------------------------------------------------
\* State
\* ------------------------------------------------------------------------
VARIABLES
    fam,                \* the family the input is drawn from
    items,              \* the items of the input table
    pc,                 \* the stage of run()
    df,                 \* the table run() works on (self-transfers removed)
    G,                  \* the graph: edge -> summed amount
    merchant_whitelist, \* self.merchant_whitelist
    smurf_map,
    cycle_data,
    pot,                \* potential shells
    todo,               \* the part of pot the loop "for start in pot" has not visited
    seen,
    shell_map,          \* dict: [keys, val]
    chains,             \* the chains seg built so far (history)
    mm_data,
    suspects,
    fraud_rings,
    ring_map,
    result,             \* what run() returns
    prev_result,        \* the result of the previous run() on the same table
    history,            \* the runs this detector instance has completed: [items, result]
    results_cache,      \* main._results_cache of each worker process: the ids it holds
    cache_file,         \* the ids stored in CACHE_FILE
    returned,           \* the analysis ids an upload has returned with status 200
    response            \* the last HTTP response: [op, id, status]

vars == <<fam, items, pc, df, G, merchant_whitelist, smurf_map, cycle_data, pot, todo,
          seen, shell_map, chains, mm_data, suspects, fraud_rings, ring_map, result, prev_result,
          history, results_cache, cache_file, returned, response>>

input_vars == <<fam, items>>
service_vars == <<results_cache, cache_file, returned, response>>
shell_vars == <<pot, todo, seen, shell_map, chains>>

None == <<>>
empty_dict == [keys |-> <<>>, val |-> <<>>]

\* the worker processes that serve the API and share CACHE_FILE
MaxProcesses == 2
Processes == 1..MaxProcesses

\* module load of main.py in every process, CACHE_FILE absent: _load_cache()
\* returns {} (lines 37-47, 65); no request served yet
InitService ==
    /\ history = <<>>
    /\ results_cache = [p \in Processes |-> {}]
    /\ cache_file = {}
    /\ returned = {}
    /\ response = None

InitFamily(f) ==
    /\ fam = f
    /\ items = {}
    /\ pc = "input"
    /\ df = <<>>
    /\ G = <<>>
    /\ merchant_whitelist = {}
    /\ smurf_map = <<>>
    /\ cycle_data = None
    /\ pot = {}
    /\ todo = {}
    /\ seen = {}
    /\ shell_map = empty_dict
    /\ chains = {}
    /\ mm_data = <<>>
    /\ suspects = {}
    /\ fraud_rings = <<>>
    /\ ring_map = <<>>
    /\ result = None
    /\ prev_result = None
    /\ InitService

\* ------------------------------------------------------------------------
\* Actions
\* ------------------------------------------------------------------------
\* one more item in the input table
AddRows ==
    /\ pc = "input"
    /\ Cardinality(items) < MaxItems(fam)
    /\ \E it \in Universe(fam) \ items : items' = items \cup {it}
    /\ UNCHANGED <<fam, history, service_vars, pc, df, G, merchant_whitelist, smurf_map, cycle_data, pot, todo,
                   seen, shell_map, chains, mm_data, suspects, fraud_rings, ring_map,
                   result, prev_result>>

\* run() lines 389-395: drop the self-transfers, build the graph
BuildGraph ==
    /\ pc = "input"
    /\ df' = SelectSeq(table_of(items), LAMBDA r : r.sender # r.receiver)
    /\ G' = build_graph(df')
    /\ pc' = "smurfing"
    /\ UNCHANGED <<input_vars, history, service_vars, merchant_whitelist, smurf_map, cycle_data, shell_vars,
                   mm_data, suspects, fraud_rings, ring_map, result, prev_result>>

\* a detect_smurfing that adds to the whitelist it finds instead of replacing it
DetectSmurfing_accumulating ==
    /\ pc = "smurfing"
    /\ merchant_whitelist' = merchant_whitelist \cup compute_whitelist(df)
    /\ smurf_map' = detect_smurfing(df, merchant_whitelist')
    /\ pc' = "cycles"
    /\ UNCHANGED <<input_vars, history, service_vars, df, G, cycle_data, shell_vars, mm_data,
                   suspects, fraud_rings, ring_map, result, prev_result>>

\* line 397
DetectSmurfing ==
    /\ pc = "smurfing"
    /\ merchant_whitelist' = compute_whitelist(df)
    /\ smurf_map' = detect_smurfing(df, merchant_whitelist')
    /\ pc' = "cycles"
    /\ UNCHANGED <<input_vars, history, service_vars, df, G, cycle_data, shell_vars, mm_data, suspects,
                   fraud_rings, ring_map, result, prev_result>>

\* line 398, and the start of detect_shell_chains (lines 224-235)
DetectCycles ==
    /\ pc = "cycles"
    /\ cycle_data' \in detect_cycles(G, merchant_whitelist)
    /\ pot' = potential_shells(G, df, merchant_whitelist, cycle_data'.cycle_members)
    /\ todo' = pot'
    /\ seen' = {}
    /\ shell_map' = empty_dict
    /\ chains' = {}
    /\ pc' = "shells"
    /\ UNCHANGED <<input_vars, history, service_vars, df, G, merchant_whitelist, smurf_map, mm_data, suspects,
                   fraud_rings, ring_map, result, prev_result>>

\* one pass of "for start in pot" (lines 237-265); the set is iterated in any order
ShellWalk ==
    /\ pc = "shells"
    /\ \E start \in todo :
          LET seg    == build_chain(G, pot, start)
              shells == chain_shells(pot, seg)
              skip   == start \in seen
              accept == ~skip /\ chain_accepted(pot, seg)
          IN  /\ todo' = todo \ {start}
              /\ chains' = IF skip THEN chains ELSE chains \cup {seg}
              /\ shell_map' = IF accept THEN record_shells(shell_map, shells, 1, Len(seg))
                               ELSE shell_map
              /\ seen' = IF accept THEN seen \cup Range(shells) ELSE seen
    /\ UNCHANGED <<input_vars, history, service_vars, pc, df, G, merchant_whitelist, smurf_map, cycle_data, pot,
                   mm_data, suspects, fraud_rings, ring_map, result, prev_result>>

\* line 402; a tie for the best member is decided by the iteration order of a set
DetectMastermind ==
    /\ pc = "shells"
    /\ todo = {}
    /\ mm_data' \in detect_mastermind(G, cycle_data.rings)
    /\ pc' = "scoring"
    /\ UNCHANGED <<input_vars, history, service_vars, df, G, merchant_whitelist, smurf_map, cycle_data, shell_vars,
                   suspects, fraud_rings, ring_map, result, prev_result>>

\* lines 404-465
ScoreSuspects ==
    /\ pc = "scoring"
    /\ suspects' = score_suspects(G, df, cycle_data, smurf_map, shell_map.val, mm_data)
    /\ pc' = "rings"
    /\ UNCHANGED <<input_vars, history, service_vars, df, G, merchant_whitelist, smurf_map, cycle_data, shell_vars,
                   mm_data, fraud_rings, ring_map, result, prev_result>>

\* lines 467-556: the cycle rings, the smurfing rings, the shell rings
AssembleRings ==
    /\ pc = "rings"
    /\ LET crs == cycle_rings(df, cycle_data.rings, suspects, mm_data)
           st0 == [ring_map    |-> cycle_data.ring_map,
                   fraud_rings |-> crs,
                   suspects    |-> suspects,
                   ctr         |-> Len(crs) + 1,
                   seen_sh     |-> {}]
           st1 == smurf_rings(st0, G, df, merchant_whitelist, smurf_map,
                              smurf_keys(smurf_map), 1)
           st2 == shell_rings(st1, G, df, shell_map.keys, 1)
       IN  /\ fraud_rings' = st2.fraud_rings
           /\ ring_map' = st2.ring_map
           /\ suspects' = st2.suspects
    /\ pc' = "post_filter"
    /\ UNCHANGED <<input_vars, history, service_vars, df, G, merchant_whitelist, smurf_map, cycle_data, shell_vars,
                   mm_data, result, prev_result>>

\* lines 558-623
PostFilter ==
    /\ pc = "post_filter"
    /\ LET pf == post_filter(suspects, fraud_rings, merchant_whitelist)
       IN  /\ suspects' = pf.suspects
           /\ fraud_rings' = pf.fraud_rings
           /\ \E lst \in sorted_suspects(pf.suspects) : result' = analysis_result(G, lst, pf)
    /\ pc' = "done"
    /\ UNCHANGED <<input_vars, history, service_vars, df, G, merchant_whitelist, smurf_map, cycle_data, shell_vars,
                   mm_data, ring_map, prev_result>>

Next ==
    \/ AddRows
    \/ BuildGraph
    \/ DetectSmurfing
    \/ DetectCycles
    \/ ShellWalk
    \/ DetectMastermind
    \/ ScoreSuspects
    \/ AssembleRings
    \/ PostFilter

\* run() is called again on the same table, by a fresh detector; the result of
\* the first call is kept in prev_result
RunAgain ==
    /\ pc = "done"
    /\ DOMAIN prev_result = {}
    /\ prev_result' = result
    /\ df' = SelectSeq(table_of(items), LAMBDA r : r.sender # r.receiver)
    /\ G' = build_graph(df')
    /\ pc' = "smurfing"
    /\ merchant_whitelist' = {}
    /\ smurf_map' = <<>>
    /\ cycle_data' = None
    /\ pot' = {}
    /\ todo' = {}
    /\ seen' = {}
    /\ shell_map' = empty_dict
    /\ chains' = {}
    /\ mm_data' = <<>>
    /\ suspects' = {}
    /\ fraud_rings' = <<>>
    /\ ring_map' = <<>>
    /\ result' = None
    /\ UNCHANGED <<input_vars, history, service_vars>>

NextTwice ==
    \/ Next
    \/ RunAgain

Families == {"cycles", "gate", "two", "velocity", "shell", "hub", "merchant", "tie",
             "masterminds"}

Init == \E f \in Families : InitFamily(f)

Spec == Init /\ [][Next]_vars

SpecCycles == InitFamily("cycles") /\ [][Next]_vars
SpecGate == InitFamily("gate") /\ [][Next]_vars
SpecTwo == InitFamily("two") /\ [][Next]_vars
SpecVelocity == InitFamily("velocity") /\ [][Next]_vars
SpecShell == InitFamily("shell") /\ [][Next]_vars
SpecHub == InitFamily("hub") /\ [][Next]_vars
SpecMerchant == InitFamily("merchant") /\ [][Next]_vars
SpecTwice == InitFamily("tie") /\ [][NextTwice]_vars
SpecMasterminds == InitFamily("masterminds") /\ [][Next]_vars

\* ------------------------------------------------------------------------
\* One detector instance used for several analyses
\* ------------------------------------------------------------------------
\* run() is called again on the same MoneyMulingDetector: the locals of run()
\* are new, self.merchant_whitelist is what the previous call left. The second
\* input differs from the first in one item; the third call is on the first
\* input again.
MaxRuns == 3

next_inputs ==
    IF history = <<>>
    THEN {(items \ {it}) \cup ({it} \ items) : it \in Universe(fam)}
    ELSE {history[1].items}

RunNext ==
    /\ pc = "done"
    /\ Len(history) < MaxRuns - 1
    /\ history' = Append(history, [items |-> items, result |-> result])
    /\ items' \in next_inputs
    /\ df' = SelectSeq(table_of(items'), LAMBDA r : r.sender # r.receiver)
    /\ G' = build_graph(df')
    /\ pc' = "smurfing"
    /\ smurf_map' = <<>>
    /\ cycle_data' = None
    /\ pot' = {}
    /\ todo' = {}
    /\ seen' = {}
    /\ shell_map' = empty_dict
    /\ chains' = {}
    /\ mm_data' = <<>>
    /\ suspects' = {}
    /\ fraud_rings' = <<>>
    /\ ring_map' = <<>>
    /\ result' = None
    /\ UNCHANGED <<fam, merchant_whitelist, prev_result, service_vars>>

NextReuse ==
    \/ Next
    \/ RunNext

SpecReuse == InitFamily("merchant") /\ [][NextReuse]_vars

\* ------------------------------------------------------------------------
\* The whitelist sweep (run lines 599-604) on its own inputs
\* ------------------------------------------------------------------------
\* The sweep reads the lists suspects and fraud_rings and the whitelist: here
\* they are drawn from bounded sets, a cycle ring over ACC_1..ACC_3 with any
\* mastermind field and, or not, a smurfing ring around the next account.
MaxSweepAccounts == 4

sweep_suspect(a, rid) ==
    [account_id        |-> a,
     suspicion_score   |-> 6250,
     detected_patterns |-> <<"cycle_length_3">>,
     ring_id           |-> rid,
     is_mastermind     |-> FALSE,
     mastermind_score  |-> -1,
     score_breakdown   |-> [cycle_score |-> 4000, velocity_score |-> 250,
                            fan_score |-> 2000, shell_score |-> 0]]

InitSweep ==
    /\ fam = "sweep"
    /\ items = {}
    /\ pc = "sweep"
    /\ df = <<>>
    /\ G = <<>>
    /\ smurf_map = <<>>
    /\ cycle_data = None
    /\ pot = {}
    /\ todo = {}
    /\ seen = {}
    /\ shell_map = empty_dict
    /\ chains = {}
    /\ mm_data = <<>>
    /\ ring_map = <<>>
    /\ result = None
    /\ prev_result = None
    /\ InitService
    /\ \E mm \in 0..3, wl \in SUBSET (1..MaxSweepAccounts),
          S \in SUBSET (1..MaxSweepAccounts), second \in BOOLEAN :
          /\ merchant_whitelist = wl
          /\ fraud_rings =
                <<ring_record(1, {1, 2, 3}, "cycle", 625, mm, <<>>)>>
                \o (IF second
                    THEN <<ring_record(2, 4..MaxSweepAccounts, "smurfing", 590, 0, <<>>)>>
                    ELSE <<>>)
          /\ suspects = {sweep_suspect(a, IF a <= 3 THEN 1 ELSE IF second THEN 2 ELSE 0) :
                            a \in S}

\* lines 599-604
WhitelistSweep ==
    /\ pc = "sweep"
    /\ LET pf == whitelist_sweep([suspects |-> suspects, fraud_rings |-> fraud_rings,
                                  fp |-> 0], merchant_whitelist)
       IN  /\ suspects' = pf.suspects
           /\ fraud_rings' = pf.fraud_rings
    /\ pc' = "swept"
    /\ UNCHANGED <<input_vars, history, service_vars, df, G, merchant_whitelist, smurf_map,
                   cycle_data, shell_vars, mm_data, ring_map, result, prev_result>>

NextSweep ==
    \/ WhitelistSweep

SpecSweep == InitSweep /\ [][NextSweep]_vars

\* ------------------------------------------------------------------------
\* The API (main.py): the result store and the upload and report handlers
\* ------------------------------------------------------------------------
\* A stored result is an opaque dict: the store is modelled by the analysis
\* ids it holds. An analysis id is a fresh uuid4: the ids are numbered in the
\* order of the uploads.
MaxUploads == 3

InitStore ==
    /\ fam = "service"
    /\ items = {}
    /\ pc = "service"
    /\ df = <<>>
    /\ G = <<>>
    /\ merchant_whitelist = {}
    /\ smurf_map = <<>>
    /\ cycle_data = None
    /\ pot = {}
    /\ todo = {}
    /\ seen = {}
    /\ shell_map = empty_dict
    /\ chains = {}
    /\ mm_data = <<>>
    /\ suspects = {}
    /\ fraud_rings = <<>>
    /\ ring_map = <<>>
    /\ result = None
    /\ prev_result = None
    /\ InitService

pipeline_vars == <<fam, items, pc, df, G, merchant_whitelist, smurf_map, cycle_data, pot, todo,
                   seen, shell_map, chains, mm_data, suspects, fraud_rings, ring_map, result,
                   prev_result, history>>

\* _load_cache (lines 37-47): the dict values of the JSON file
_load_cache(file) == file

\* _save_cache (lines 50-61): the file is opened with "w" and gets the dict
\* values of the cache of this process, whatever the file held
_save_cache(cache) == cache

issued_ids == returned \cup cache_file \cup UNION {results_cache[p] : p \in Processes}

\* what the request does inside upload: the file name is not *.csv; parse_csv
\* raises for missing columns; run() raises; or the pipeline returns a result
UploadOutcomes == {"not_csv", "missing_columns", "run_raises", "ok"}

http_response(op, id, status, detail) ==
    [op |-> op, id |-> id, status |-> status, detail |-> detail]

\* upload (lines 78-106) served by process p
Upload ==
    /\ pc = "service"
    /\ \E p \in Processes, outcome \in UploadOutcomes :
          LET aid == Cardinality(issued_ids) + 1
          IN  CASE outcome = "not_csv" ->
                     /\ response' = http_response("upload", 0, 400,
                                                  "Only CSV files are accepted.")
                     /\ UNCHANGED <<results_cache, cache_file, returned>>
                [] outcome = "missing_columns" ->
                     /\ response' = http_response("upload", 0, 400,
                                                  "Analysis failed: Missing columns")
                     /\ UNCHANGED <<results_cache, cache_file, returned>>
                [] outcome = "run_raises" ->
                     /\ response' = http_response("upload", 0, 400,
                                                  "Analysis failed: error in run")
                     /\ UNCHANGED <<results_cache, cache_file, returned>>
                [] outcome = "ok" ->
                     /\ aid <= MaxUploads
                     /\ results_cache' = [results_cache EXCEPT ![p] = @ \cup {aid}]
                     /\ cache_file' = _save_cache(results_cache'[p])
                     /\ returned' = returned \cup {aid}
                     /\ response' = http_response("upload", aid, 200, "")
    /\ UNCHANGED pipeline_vars

\* report (lines 109-144) served by process p: the cache is reloaded from the
\* file; the PDF generation succeeds or raises
Report ==
    /\ pc = "service"
    /\ \E p \in Processes, analysis_id \in 1..MaxUploads, pdf_ok \in BOOLEAN :
          LET current_cache == _load_cache(cache_file)
          IN  response' =
                 IF analysis_id \notin current_cache
                 THEN http_response("report", analysis_id, 404,
                                    "Analysis records not found.")
                 ELSE IF pdf_ok THEN http_response("report", analysis_id, 200, "")
                 ELSE http_response("report", analysis_id, 500, "PDF generation failed")
    /\ UNCHANGED <<results_cache, cache_file, returned>>
    /\ UNCHANGED pipeline_vars

\* process p restarts: module load, _results_cache = _load_cache() (line 65)
Restart ==
    /\ pc = "service"
    /\ \E p \in Processes :
          results_cache' = [results_cache EXCEPT ![p] = _load_cache(cache_file)]
    /\ UNCHANGED <<cache_file, returned, response>>
    /\ UNCHANGED pipeline_vars

NextStore ==
    \/ Upload
    \/ Report
    \/ Restart

SpecStore == InitStore /\ [][NextStore]_vars

\* ------------------------------------------------------------------------
\* Properties
\* ------------------------------------------------------------------------
CyclesDone == pc \in {"shells", "scoring", "rings", "post_filter", "done"}
Scored == pc \in {"rings", "post_filter", "done"}
Assembled == pc \in {"post_filter", "done"}

\* every elementary directed cycle of G, of any length
AllCycles == simple_cycles(DOMAIN G, Nodes(G), Cardinality(Nodes(G)))

IsElementaryCycle(c) ==
    /\ \A i, j \in DOMAIN c : c[i] = c[j] => i = j
    /\ \A i \in DOMAIN c : <<c[i], c[(i % Len(c)) + 1]>> \in DOMAIN G

\* a lies on directed cycles, all of them of 2 accounts or of 6 or more
OnlyOtherLengths(a) ==
    /\ \E c \in AllCycles : a \in Range(c)
    /\ \A c \in AllCycles : a \in Range(c) => Len(c) = 2 \/ Len(c) >= 6

NonCycleTags ==
    {"fan_in", "fan_out", "high_velocity", "shell_chain", "low_transaction_intermediary"}

\* C6: only elementary directed cycles of 3, 4 or 5 accounts are reported:
\* every cycle kept by detect_cycles is one, every cycle_length_k pattern of a
\* suspect has k in {3, 4, 5}, and an account whose only directed cycles have
\* 2 accounts or 6 or more is in no cycle ring and has cycle_score 0.
OnlyCycleLengths3To5 ==
    CyclesDone =>
        /\ \A j \in DOMAIN cycle_data.raw_cycles :
              /\ Len(cycle_data.raw_cycles[j]) \in {3, 4, 5}
              /\ IsElementaryCycle(cycle_data.raw_cycles[j])
        /\ \A a \in Nodes(G) :
              OnlyOtherLengths(a) =>
                  /\ a \notin DOMAIN cycle_data.ring_map
                  /\ \A rid \in DOMAIN cycle_data.rings : a \notin cycle_data.rings[rid]
        /\ Scored =>
              \A s \in suspects :
                  /\ \A i \in DOMAIN s.detected_patterns :
                        s.detected_patterns[i] \notin NonCycleTags =>
                            s.detected_patterns[i] \in
                                {"cycle_length_3", "cycle_length_4", "cycle_length_5"}
                  /\ OnlyOtherLengths(s.account_id) => s.score_breakdown.cycle_score = 0
        /\ Assembled =>
              \A i \in DOMAIN fraud_rings :
                  fraud_rings[i].pattern_type = "cycle" =>
                      \A a \in fraud_rings[i].member_accounts : ~OnlyOtherLengths(a)

\* a run that kept a cycle and returned a suspect whose only cycles have 2 or 6
\* accounts, on a graph that has a cycle of 2 and a cycle of 6 accounts
OnlyCycleLengths3To5Witness ==
    /\ pc = "done"
    /\ cycle_data.raw_cycles # <<>>
    /\ \E c \in AllCycles : Len(c) = 2
    /\ \E c \in AllCycles : Len(c) = 6
    /\ \E i \in DOMAIN result.suspicious_accounts :
          OnlyOtherLengths(result.suspicious_accounts[i].account_id)

\* the accounts a and b lie on a common kept cycle
SharesCycle(a, b) ==
    \E j \in DOMAIN cycle_data.raw_cycles :
        a \in Range(cycle_data.raw_cycles[j]) /\ b \in Range(cycle_data.raw_cycles[j])

OnKeptCycle == UNION {Range(cycle_data.raw_cycles[j]) : j \in DOMAIN cycle_data.raw_cycles}

\* for each account on a kept cycle, the accounts a chain of kept cycles links
\* it to, consecutive cycles of the chain sharing a member
LinkedTo ==
    LET shares == {e \in OnKeptCycle \X OnKeptCycle : SharesCycle(e[1], e[2])}
    IN  [a \in OnKeptCycle |-> reachable(shares, {a})]

\* C5: the cycle rings are the classes of "shares a kept cycle" closed
\* transitively: two accounts have the same ring label iff a chain of kept
\* cycles links them, every account on a kept cycle is in exactly one ring,
\* and rings[ring_map[a]] contains a.
RingsAreCycleClasses ==
    CyclesDone =>
        /\ DOMAIN cycle_data.ring_map = OnKeptCycle
        /\ UNION {cycle_data.rings[rid] : rid \in DOMAIN cycle_data.rings} = OnKeptCycle
        /\ LET linked == LinkedTo
           IN  \A a \in OnKeptCycle :
                   {b \in OnKeptCycle : cycle_data.ring_map[a] = cycle_data.ring_map[b]}
                       = linked[a]
        /\ \A a \in OnKeptCycle :
              /\ cycle_data.ring_map[a] \in DOMAIN cycle_data.rings
              /\ a \in cycle_data.rings[cycle_data.ring_map[a]]
              /\ Cardinality({rid \in DOMAIN cycle_data.rings : a \in cycle_data.rings[rid]}) = 1

\* two accounts of one ring that are linked only through a third cycle
RingsAreCycleClassesWitness ==
    /\ CyclesDone
    /\ \E a, b \in OnKeptCycle :
          /\ cycle_data.ring_map[a] = cycle_data.ring_map[b]
          /\ \A x, y \in OnKeptCycle : SharesCycle(a, x) /\ SharesCycle(b, y) => x # y

\* C3: every returned suspect has 0 < suspicion_score <= 100, the score is
\* min(100, cycle_score + velocity_score + fan_score + shell_score) within
\* 0.01, and cycle_score <= 40, velocity_score <= 25, fan_score <= 20,
\* shell_score <= 15 (scores in hundredths).
ScoreBounds ==
    pc = "done" =>
        \A i \in DOMAIN result.suspicious_accounts :
            LET s   == result.suspicious_accounts[i]
                b   == s.score_breakdown
                sum == b.cycle_score + b.velocity_score + b.fan_score + b.shell_score
                cap == IF sum > 10000 THEN 10000 ELSE sum
            IN  /\ 0 < s.suspicion_score /\ s.suspicion_score <= 10000
                /\ s.suspicion_score - cap \in -1..1
                /\ b.cycle_score <= 4000 /\ b.velocity_score <= 2500
                /\ b.fan_score <= 2000 /\ b.shell_score <= 1500

\* a returned suspect whose degree share alone would pass the cap of fan_score
ScoreBoundsWitness ==
    /\ pc = "done"
    /\ \E i \in DOMAIN result.suspicious_accounts :
          LET s == result.suspicious_accounts[i]
          IN  /\ s.score_breakdown.fan_score = 2000
              /\ s.score_breakdown.cycle_score = 4000
              /\ s.score_breakdown.velocity_score > 0
              /\ (in_degree(G, s.account_id) + out_degree(G, s.account_id)) * 10
                     > 2 * Cardinality(Nodes(G))

\* the sum of the amounts of the rows of df along the cycle c
AmountAlong(c) ==
    LET hop(i) == {r \in DOMAIN df : df[r].sender = c[i] /\ df[r].receiver = c[(i % Len(c)) + 1]}
    IN  SumAmount(df, UNION {hop(i) : i \in DOMAIN c})

\* the gate as specified, T = MIN_CYCLE_AMOUNT
AmountGate(c) ==
    LET total == AmountAlong(c)
    IN  IF \A n \in Range(c) : Prefix(n) = "LEGIT_"
        THEN total >= 3 * MIN_CYCLE_AMOUNT /\ total >= 25000 * Len(c)
        ELSE IF \E n \in Range(c) : Prefix(n) \in _FRAUD_PREFIXES
        THEN 2 * total >= MIN_CYCLE_AMOUNT
        ELSE total >= MIN_CYCLE_AMOUNT

\* C7: of the elementary cycles of 3 to 5 accounts, detect_cycles keeps those
\* that pass the amount gate: all members LEGIT_: total >= 3T and average
\* >= 25000; otherwise with a fraud-prefixed member: total >= T/2; otherwise
\* total >= T (T = MIN_CYCLE_AMOUNT, total over the aggregated edges).
AmountGating ==
    CyclesDone =>
        \A c \in AllCycles :
            (Len(c) \in 3..5 /\ Range(c) \cap merchant_whitelist = {}) =>
                ((\E j \in DOMAIN cycle_data.raw_cycles : cycle_data.raw_cycles[j] = c)
                    <=> AmountGate(c))

\* a kept cycle with a fraud-prefixed member and a total under T
AmountGatingWitness ==
    /\ CyclesDone
    /\ \E j \in DOMAIN cycle_data.raw_cycles :
          /\ AmountAlong(cycle_data.raw_cycles[j]) < MIN_CYCLE_AMOUNT
          /\ \E n \in Range(cycle_data.raw_cycles[j]) : _is_fraud(n)

\* C1: the labels of the k rings run() returns are RING_001 .. RING_k, with no
\* gaps.
DenseRingLabels ==
    pc = "done" =>
        {result.fraud_rings[i].ring_id : i \in DOMAIN result.fraud_rings}
            = 1..Len(result.fraud_rings)

\* the distinct counterparties of a over both directions, from the rows of df
Counterparties(a) ==
    {df[i].receiver : i \in {j \in DOMAIN df : df[j].sender = a}}
        \cup {df[i].sender : i \in {j \in DOMAIN df : df[j].receiver = a}}

Whitelisted(a) == Cardinality(Counterparties(a)) >= MERCHANT_THRESHOLD

\* C2: in the result of run() no suspect's account_id and no ring's
\* mastermind_account has MERCHANT_THRESHOLD or more distinct counterparties
\* over both directions, also when such an account lies on directed cycles.
NoWhitelistedInOutput ==
    pc = "done" =>
        /\ \A i \in DOMAIN result.suspicious_accounts :
              ~Whitelisted(result.suspicious_accounts[i].account_id)
        /\ \A i \in DOMAIN result.fraud_rings :
              result.fraud_rings[i].mastermind_account # 0 =>
                  ~Whitelisted(result.fraud_rings[i].mastermind_account)

\* a run that returned suspects on a table where a whitelisted account lies on
\* a directed cycle of 3 accounts
NoWhitelistedInOutputWitness ==
    /\ pc = "done"
    /\ result.suspicious_accounts # <<>>
    /\ \E c \in AllCycles : Len(c) = 3 /\ \E a \in Range(c) : Whitelisted(a)

SmurfingDone == pc \notin {"input", "smurfing"}

\* the rows of df that pay a at a time in lo .. lo + VELOCITY_WINDOW_HOURS
Window(a, lo) ==
    {i \in DOMAIN df : /\ df[i].receiver = a
                       /\ lo <= df[i].timestamp
                       /\ df[i].timestamp <= lo + VELOCITY_WINDOW_HOURS}

\* some set of incoming transactions of a spans at most VELOCITY_WINDOW_HOURS
\* and has VELOCITY_TX_THRESHOLD transactions from VELOCITY_TX_THRESHOLD
\* distinct senders; such a set lies in the window that starts at its earliest
\* transaction, so it is enough to look at those windows
VelocityWindowExists(a) ==
    \E r \in DOMAIN df :
        /\ df[r].receiver = a
        /\ Cardinality(Window(a, df[r].timestamp)) >= VELOCITY_TX_THRESHOLD
        /\ Cardinality({df[i].sender : i \in Window(a, df[r].timestamp)})
               >= VELOCITY_TX_THRESHOLD

\* C8: detect_smurfing tags a non-whitelisted account high_velocity iff some
\* set of its incoming transactions spans at most VELOCITY_WINDOW_HOURS and
\* holds at least VELOCITY_TX_THRESHOLD transactions from at least
\* VELOCITY_TX_THRESHOLD distinct senders.
HighVelocityIffWindow ==
    SmurfingDone =>
        \A a \in Accounts(df) \ merchant_whitelist :
            (a \in DOMAIN smurf_map /\ "high_velocity" \in Range(smurf_map[a]))
                <=> VelocityWindowExists(a)

\* an account tagged high_velocity by a window that does not start at its
\* first incoming transaction, the window from the first one falling short
HighVelocityIffWindowWitness ==
    /\ SmurfingDone
    /\ \E a \in DOMAIN smurf_map :
          /\ "high_velocity" \in Range(smurf_map[a])
          /\ \E r \in DOMAIN df :
                /\ df[r].receiver = a
                /\ \A i \in DOMAIN df : df[i].receiver = a => df[r].timestamp <= df[i].timestamp
                /\ Cardinality({df[i].sender : i \in Window(a, df[r].timestamp)})
                       < VELOCITY_TX_THRESHOLD

ShellsDone == pc \in {"scoring", "rings", "post_filter", "done"}

\* the chain seg has at least 4 accounts, at least 2 of them potential shells
AcceptedChain(seg) ==
    Cardinality(Range(seg)) >= 4 /\ Cardinality(Range(seg) \cap pot) >= 2

\* C9: n is a key of shell_map iff n is a potential shell on a chain built by
\* the walk that has at least 4 accounts of which at least 2 are potential
\* shells, and shell_map[n] is the number of accounts of such a chain.
ShellMapMatchesChains ==
    ShellsDone =>
        /\ DOMAIN shell_map.val =
               {n \in pot : \E seg \in chains : n \in Range(seg) /\ AcceptedChain(seg)}
        /\ \A n \in DOMAIN shell_map.val :
               \E seg \in chains :
                   /\ n \in Range(seg) /\ AcceptedChain(seg)
                   /\ shell_map.val[n] = Cardinality(Range(seg))

\* C10: no account that carries a ring label when a shell ring is built is a
\* member of that shell ring.  A label is never overwritten, so an account that
\* had one keeps it and differs from the shell ring's label.
ShellRingsSkipLabelled ==
    Assembled =>
        \A i \in DOMAIN fraud_rings :
            fraud_rings[i].pattern_type = "shell" =>
                \A m \in fraud_rings[i].member_accounts :
                    ring_map[m] = fraud_rings[i].ring_id

\* C4: run() called twice on the same table returns equal results (apart from
\* analysis_id, timestamp and processing_time_seconds, which the model leaves
\* out): the same suspects in the same order, the same rings with the same
\* labels and members, the same summary, whatever the iteration order of sets.
RepeatableRun ==
    (pc = "done" /\ DOMAIN prev_result # {}) => result = prev_result

\* ------------------------------------------------------------------------
\* C11: in the whitelist sweep every ring stays in fraud_rings, in the same
\* order; a ring whose mastermind_account is whitelisted stays with its
\* mastermind_account cleared (None, 0); the other rings are unchanged.
clear_mastermind(r, wl) ==
    IF r.mastermind_account \in wl THEN [r EXCEPT !.mastermind_account = 0] ELSE r

StoredResultFound ==
    (response # None /\ response.op = "report" /\ response.id \in returned)
        => response.status # 404

\* ------------------------------------------------------------------------
\* C13: an upload whose run() raises is answered with a 5xx status.
PipelineErrorIs5xx ==
    (response # None /\ response.op = "upload"
        /\ response.detail = "Analysis failed: error in run")
        => response.status >= 500


\* ------------------------------------------------------------------------
\* C14: on a detector instance that has already analysed other inputs, the
\* whitelist is, at every stage that reads it, the one computed from the
\* present input alone, and the analysis returns the suspects, the rings and
\* the summary that the fresh instance returned for the same input.
SmurfingDoneInRun == pc \in {"cycles", "shells", "scoring", "rings", "post_filter", "done"}

same_analysis(r1, r2) ==
    /\ Range(r1.suspicious_accounts) = Range(r2.suspicious_accounts)
    /\ r1.fraud_rings = r2.fraud_rings
    /\ r1.summary = r2.summary

NoWhitelistLeak ==
    /\ SmurfingDoneInRun => merchant_whitelist = compute_whitelist(df)
    /\ (pc = "done" /\ history # <<>> /\ history[1].items = items)
          => same_analysis(result, history[1].result)

\* the third analysis is done, on the first input again, the second input had
\* another whitelist, and the analysis returns suspects
NoWhitelistLeakWitness ==
    /\ pc = "done"
    /\ Len(history) = 2
    /\ history[1].items = items
    /\ compute_whitelist(table_of(history[2].items)) # merchant_whitelist
    /\ result.suspicious_accounts # <<>>


\* ------------------------------------------------------------------------
\* C15: summary.false_positives_filtered is the number of scored suspects
\* before the post-filter minus the number of suspects returned, so every
\* suspect the post-filter removes is counted once and nothing else is.
FalsePositivesCounted ==
    [][(pc = "post_filter" /\ pc' = "done") =>
          result'.summary.false_positives_filtered
              = Cardinality(suspects) - Len(result'.suspicious_accounts)]_vars

\* an analysis that filtered suspects out and returned others
FalsePositivesCountedWitness ==
    /\ pc = "done"
    /\ result.summary.false_positives_filtered > 0
    /\ result.suspicious_accounts # <<>>


\* ------------------------------------------------------------------------
\* C16: after every step of the post-filter, and in what run() returns, a
\* suspect with a ring_id refers to a ring that is in fraud_rings and that
\* has the suspect's account among its member_accounts.
ring_refs_resolve(S, rings) ==
    \A x \in S : x.ring_id # 0 =>
        \E i \in DOMAIN rings : /\ rings[i].ring_id = x.ring_id
                                 /\ x.account_id \in rings[i].member_accounts

SuspectRingsExist ==
    /\ pc = "post_filter" =>
          LET steps == post_filter_steps(suspects, fraud_rings, merchant_whitelist)
          IN  \A k \in DOMAIN steps : ring_refs_resolve(steps[k].suspects, steps[k].fraud_rings)
    /\ pc = "done" =>
          /\ ring_refs_resolve(Range(result.suspicious_accounts), result.fraud_rings)
          /\ ring_refs_resolve(suspects, fraud_rings)

\* an analysis in which the post-filter dropped a ring and that returns a
\* suspect of a ring that is not a cycle ring
SuspectRingsExistWitness ==
    /\ pc = "done"
    /\ result.summary.false_positives_filtered > 0
    /\ Len(result.fraud_rings) < Cardinality(Range(ring_map))
    /\ \E x \in Range(result.suspicious_accounts) :
          /\ x.ring_id # 0
          /\ x.account_id \notin cycle_data.cycle_members


\* ------------------------------------------------------------------------
\* C17: every chain that the walks of detect_shell_chains build holds each
\* account at most once, so its length is its number of distinct accounts.
ChainsHaveNoRepeats ==
    \A seg \in chains : Cardinality(Range(seg)) = Len(seg)


\* ------------------------------------------------------------------------
\* C18: no key of shell_map is a key of the cycle ring_map, no suspect has a
\* positive cycle_score and a positive shell_score, and every suspicion_score
\* is at most 85 (8500 hundredths).
CycleAndShellExclusive ==
    /\ CyclesDone => DOMAIN shell_map.val \cap DOMAIN cycle_data.ring_map = {}
    /\ Scored => \A x \in suspects :
                    /\ ~(x.score_breakdown.cycle_score > 0 /\ x.score_breakdown.shell_score > 0)
                    /\ x.suspicion_score <= 8500
    /\ pc = "done" => \A i \in DOMAIN result.suspicious_accounts :
                    LET x == result.suspicious_accounts[i]
                    IN  /\ ~(x.score_breakdown.cycle_score > 0
                               /\ x.score_breakdown.shell_score > 0)
                        /\ x.suspicion_score <= 8500

\* one analysis returns a suspect with a cycle score and a suspect with a
\* shell score
CycleAndShellExclusiveWitness ==
    /\ pc = "done"
    /\ \E i, j \in DOMAIN result.suspicious_accounts :
          /\ result.suspicious_accounts[i].score_breakdown.cycle_score > 0
          /\ result.suspicious_accounts[j].score_breakdown.shell_score > 0


\* ------------------------------------------------------------------------
\* C19: no ring that run() returns, of any pattern_type, has a whitelisted
\* account among its member_accounts.
NoWhitelistedRingMember ==
    pc = "done" =>
        \A i \in DOMAIN result.fraud_rings :
            \A m \in result.fraud_rings[i].member_accounts : ~Whitelisted(m)


\* ------------------------------------------------------------------------
\* C20: the cycle rings are pairwise disjoint, so the ring membership count
\* of every ring member is 1 and the multi-ring bonus is 0; the mastermind
\* of a ring is a member of that ring and of no other ring's record.
ring_membership_count(rings, m) == Cardinality({rid \in DOMAIN rings : m \in rings[rid]})

MastermindDone == pc \in {"scoring", "rings", "post_filter", "done"}

OneRingPerMastermind ==
    MastermindDone =>
        LET rings == cycle_data.rings
        IN  /\ \A r1, r2 \in DOMAIN rings : r1 # r2 => rings[r1] \cap rings[r2] = {}
            /\ \A rid \in DOMAIN rings : \A m \in rings[rid] :
                   ring_membership_count(rings, m) = 1
            /\ DOMAIN mm_data \subseteq DOMAIN rings
            /\ \A rid \in DOMAIN mm_data : mm_data[rid].account_id \in rings[rid]
            /\ \A r1, r2 \in DOMAIN mm_data :
                   r1 # r2 => mm_data[r1].account_id # mm_data[r2].account_id
            /\ pc = "scoring" =>
                   \A rid \in DOMAIN mm_data :
                       mm_data[rid].mastermind_score
                           = mastermind_score(composite(G, rings[rid])[mm_data[rid].account_id], 1)

\* two cycle rings, each with a mastermind
OneRingPerMastermindWitness ==
    /\ pc = "done"
    /\ Cardinality(DOMAIN cycle_data.rings) >= 2
    /\ Cardinality(DOMAIN mm_data) >= 2


====
